---- MODULE Spec2Model ----
(***************************************************************************)
(* A model of infi/clickhouse_orm/query.py: the filtering operators, the   *)
(* condition leaf (FOV), the condition tree (Q) and the query builders     *)
(* (QuerySet, AggregateQuerySet).                                          *)
(*                                                                         *)
(* Python objects live in a heap keyed by object identity, so that copy()  *)
(* (shallow) and deepcopy() differ as they do in Python.  Rendered SQL is  *)
(* a sequence of string tokens; the tokens of one rendering concatenated   *)
(* with the source's separators are the text the source builds.            *)
(***************************************************************************)
EXTENDS Integers, Sequences, FiniteSets, TLC

VARIABLES
    heap,    \* the Python heap: Q objects, FOV objects, list values, builders
    regs,    \* the objects the caller holds: condition trees or builders
    last,    \* the operation performed last, its operands and its outcome
    model_cls, \* the model class of the builders: its storage engine
    opIn,    \* operator rendering: the (operator, field, value) to render
    opOut    \* operator rendering: the outcome

vars == <<heap, regs, last, model_cls, opIn, opOut>>

(***************************************************************************)
(* Bounds of the model.                                                    *)
(***************************************************************************)
MaxVal == 2        \* leaf values and list items range over 0..MaxVal
MaxRegs == 4       \* condition trees the caller holds at once

(***************************************************************************)
(* Values.  A scalar is an integer or None; a list holds scalars.          *)
(***************************************************************************)
None == [some |-> FALSE, i |-> 0]
Some(i) == [some |-> TRUE, i |-> i]
Scalars == {None} \cup {Some(i) : i \in 0..MaxVal}

\* F of x: a value that is used more than once is bound to a name once
With(x, F(_)) == F(x)

SeqRange(s) == {s[i] : i \in 1..Len(s)}

\* str(value) for a scalar
str(e) == IF e.some THEN ToString(e.i) ELSE "None"

\* utils.comma_join over token sequences: items separated by ","
RECURSIVE comma_join(_)
comma_join(items) ==
    IF items = <<>> THEN <<>>
    ELSE IF Len(items) = 1 THEN Head(items)
    ELSE Head(items) \o <<",">> \o comma_join(Tail(items))

(***************************************************************************)
(* The model class and its field collaborators.  Fields x and y are        *)
(* integer fields, my__field is an integer field whose name holds a double *)
(* underscore, and n is a nullable integer field.                          *)
(***************************************************************************)
FieldNames == <<"x", "y", "n", "my__field">>
IsNullable(field_name) == field_name = "n"
NullLiteral == "\\N"

\* field.to_db_string(field.to_python(value, pytz.utc)): the SQL literal of a
\* scalar, or a failure (ValueError) for None on a field that is not nullable
field_to_db(field_name, e) ==
    IF e.some THEN [ok |-> TRUE, s |-> ToString(e.i)]
    ELSE IF IsNullable(field_name) THEN [ok |-> TRUE, s |-> NullLiteral]
    ELSE [ok |-> FALSE, s |-> ""]

(***************************************************************************)
(* Operators.  Each to_sql returns                                         *)
(*   ok   : FALSE when the call raises,                                    *)
(*   sql  : the rendered fragment (tokens),                                *)
(*   ret  : FALSE when the call returns without a value (None),            *)
(*   conv : the scalars handed to the field collaborator, in call order.   *)
(* A value is [kind, e, items]: a scalar e or a list of items.             *)
(***************************************************************************)
ScalarValue(e) == [kind |-> "scalar", e |-> e, items |-> <<>>]
ListValue(items) == [kind |-> "list", e |-> None, items |-> items]

Raised(conv) == [ok |-> FALSE, sql |-> <<>>, ret |-> FALSE, conv |-> conv]
Returned(sql, conv) == [ok |-> TRUE, sql |-> sql, ret |-> TRUE, conv |-> conv]

SimpleOperator_to_sql(sql_operator, sql_for_null, field_name, value) ==
    IF value.kind # "scalar" THEN Raised(<<>>)
    ELSE LET v == field_to_db(field_name, value.e) IN
         IF ~v.ok THEN Raised(<<value.e>>)
         ELSE IF v.s = NullLiteral /\ sql_for_null # ""
              THEN Returned(<<field_name, sql_for_null>>, <<value.e>>)
              ELSE Returned(<<field_name, sql_operator, v.s>>, <<value.e>>)

\* the conversions of a list's items, stopping at the first that raises
RECURSIVE convert_items(_, _)
convert_items(field_name, items) ==
    IF items = <<>> THEN [ok |-> TRUE, lits |-> <<>>, conv |-> <<>>]
    ELSE LET v == field_to_db(field_name, Head(items)) IN
         IF ~v.ok THEN [ok |-> FALSE, lits |-> <<>>, conv |-> <<Head(items)>>]
         ELSE LET rest == convert_items(field_name, Tail(items)) IN
              [ok |-> rest.ok, lits |-> <<<<v.s>>>> \o rest.lits,
               conv |-> <<Head(items)>> \o rest.conv]

InOperator_to_sql(field_name, value) ==
    IF value.kind # "list" THEN Raised(<<>>)
    ELSE LET c == convert_items(field_name, value.items) IN
         IF ~c.ok THEN Raised(c.conv)
         ELSE Returned(<<field_name, "IN", "(">> \o comma_join(c.lits) \o <<")">>,
                       c.conv)

LikeOperator_to_sql(pattern, case_sensitive, field_name, value) ==
    IF value.kind # "scalar" THEN Raised(<<>>)
    ELSE LET v == field_to_db(field_name, value.e)
             \* an integer's literal holds no backslash, % or _ to escape
             pat == IF pattern = "%{}%" THEN "%" \o v.s \o "%"
                    ELSE IF pattern = "{}%" THEN v.s \o "%"
                    ELSE "%" \o v.s
         IN IF ~v.ok THEN Raised(<<value.e>>)
            ELSE IF case_sensitive
                 THEN Returned(<<field_name, "LIKE", "'" \o pat \o "'">>,
                               <<value.e>>)
                 ELSE Returned(<<"lowerUTF8(", field_name, ")", "LIKE",
                                 "lowerUTF8(", "'" \o pat \o "'", ")">>,
                               <<value.e>>)

IExactOperator_to_sql(field_name, value) ==
    IF value.kind # "scalar" THEN Raised(<<>>)
    ELSE LET v == field_to_db(field_name, value.e) IN
         IF ~v.ok THEN Raised(<<value.e>>)
         ELSE Returned(<<"lowerUTF8(", field_name, ")", "=",
                         "lowerUTF8(", v.s, ")">>, <<value.e>>)

NotOperator_to_sql(base) ==
    IF ~base.ok THEN base
    ELSE Returned(<<"NOT", "(">> \o base.sql \o <<")">>, base.conv)

\* the guard of each bound's conversion as the source writes it:
\*   value[i] is not None or len(str(value[i])) > 0
BetweenConverts(e) == e.some \/ Len(str(e)) > 0

BetweenOperator_to_sql(field_name, value) ==
    IF value.kind # "list" \/ Len(value.items) < 2 THEN Raised(<<>>)
    ELSE LET b0 == value.items[1]
             b1 == value.items[2]
             c0 == BetweenConverts(b0)
             c1 == BetweenConverts(b1)
             v0 == IF c0 THEN field_to_db(field_name, b0) ELSE [ok |-> TRUE, s |-> ""]
             v1 == IF c1 THEN field_to_db(field_name, b1) ELSE [ok |-> TRUE, s |-> ""]
             conv0 == IF c0 THEN <<b0>> ELSE <<>>
             conv1 == IF c1 THEN <<b1>> ELSE <<>>
             \* truth of value0 / value1: a non-empty string
             t0 == c0 /\ v0.s # ""
             t1 == c1 /\ v1.s # ""
         IN IF ~v0.ok THEN Raised(conv0)
            ELSE IF ~v1.ok THEN Raised(conv0 \o conv1)
            ELSE IF t0 /\ t1
                 THEN Returned(<<field_name, "BETWEEN", v0.s, "AND", v1.s>>,
                               conv0 \o conv1)
            ELSE IF t0 /\ ~t1
                 THEN Returned(<<field_name, ">=", v0.s>>, conv0 \o conv1)
            ELSE IF t1 /\ ~t0
                 THEN Returned(<<field_name, "<=", v1.s>>, conv0 \o conv1)
            ELSE [ok |-> TRUE, sql |-> <<>>, ret |-> FALSE, conv |-> conv0 \o conv1]

\* the names register_operator() has filled _operators with
OperatorNames ==
    {"eq", "ne", "gt", "gte", "lt", "lte", "between", "in", "not_in",
     "contains", "startswith", "endswith", "icontains", "istartswith",
     "iendswith", "iexact"}

\* _operators[name].to_sql(model_cls, field_name, value); every to_sql starts
\* with getattr(model_cls, field_name), which raises for a name the model lacks
Operator_to_sql(name, field_name, value) ==
    CASE field_name \notin SeqRange(FieldNames) -> Raised(<<>>)
      [] name = "eq"  -> SimpleOperator_to_sql("=", "IS NULL", field_name, value)
      [] name = "ne"  -> SimpleOperator_to_sql("!=", "IS NOT NULL", field_name, value)
      [] name = "gt"  -> SimpleOperator_to_sql(">", "", field_name, value)
      [] name = "gte" -> SimpleOperator_to_sql(">=", "", field_name, value)
      [] name = "lt"  -> SimpleOperator_to_sql("<", "", field_name, value)
      [] name = "lte" -> SimpleOperator_to_sql("<=", "", field_name, value)
      [] name = "between" -> BetweenOperator_to_sql(field_name, value)
      [] name = "in" -> InOperator_to_sql(field_name, value)
      [] name = "not_in" -> NotOperator_to_sql(InOperator_to_sql(field_name, value))
      [] name = "contains" -> LikeOperator_to_sql("%{}%", TRUE, field_name, value)
      [] name = "startswith" -> LikeOperator_to_sql("{}%", TRUE, field_name, value)
      [] name = "endswith" -> LikeOperator_to_sql("%{}", TRUE, field_name, value)
      [] name = "icontains" -> LikeOperator_to_sql("%{}%", FALSE, field_name, value)
      [] name = "istartswith" -> LikeOperator_to_sql("{}%", FALSE, field_name, value)
      [] name = "iendswith" -> LikeOperator_to_sql("%{}", FALSE, field_name, value)
      [] name = "iexact" -> IExactOperator_to_sql(field_name, value)

(***************************************************************************)
(* The heap.  q, f, v and b map the identities of the live Q objects, FOV  *)
(* objects, list values and builders to their contents; next is the next   *)
(* identity to hand out.  A leaf's value is a scalar (immutable, held by   *)
(* value) or a reference to a list (mutable, held by identity).            *)
(***************************************************************************)
EmptyFn == [o \in {} |-> 0]
EmptyHeap == [q |-> EmptyFn, f |-> EmptyFn, v |-> EmptyFn, b |-> EmptyFn, next |-> 1]

ScalarRef(e) == [kind |-> "scalar", e |-> e, ref |-> 0]
ListRef(id) == [kind |-> "list", e |-> None, ref |-> id]

\* the value a reference denotes, as the operators read it
Deref(h, value) ==
    IF value.kind = "list" THEN ListValue(h.v[value.ref]) ELSE ScalarValue(value.e)

AllocV(h, items) ==
    [h |-> [h EXCEPT !.v = @ @@ (h.next :> items), !.next = @ + 1], r |-> h.next]
AllocF(h, fov) ==
    [h |-> [h EXCEPT !.f = @ @@ (h.next :> fov), !.next = @ + 1], r |-> h.next]
AllocQ(h, q) ==
    [h |-> [h EXCEPT !.q = @ @@ (h.next :> q), !.next = @ + 1], r |-> h.next]

AND_MODE == "AND"
OR_MODE == "OR"

(***************************************************************************)
(* FOV: field + operator + value.                                          *)
(***************************************************************************)
\* FOV.__init__: an operator name _operators does not know is part of the
\* field name, and the operator is eq
FOV_init(field_name, operator, value) ==
    IF operator \in OperatorNames
    THEN [field_name |-> field_name, operator |-> operator, value |-> value]
    ELSE [field_name |-> field_name \o "__" \o operator, operator |-> "eq",
          value |-> value]

\* Q._build_fov: a key is its text before the last "__" and its text after it
\* (dunder), or a text without "__"
build_fov(key, value) ==
    IF key.dunder THEN FOV_init(key.name, key.suffix, value)
    ELSE FOV_init(key.name, "eq", value)

FOV_to_sql(h, id) ==
    Operator_to_sql(h.f[id].operator, h.f[id].field_name, Deref(h, h.f[id].value))

\* deepcopy(value): a list is copied, a scalar is immutable and stays itself
deepcopy_value(h, value) ==
    IF value.kind = "list"
    THEN LET a == AllocV(h, h.v[value.ref]) IN [h |-> a.h, r |-> ListRef(a.r)]
    ELSE [h |-> h, r |-> value]

\* FOV.__deepcopy__: res = copy(self); res._value = deepcopy(self._value)
FOV_deepcopy(h, id) ==
    With(deepcopy_value(h, h.f[id].value), LAMBDA c :
    AllocF(c.h, [h.f[id] EXCEPT !.value = c.r]))

\* [deepcopy(fov) for fov in fovs]
RECURSIVE deepcopy_fovs(_, _)
deepcopy_fovs(h, fovs) ==
    IF fovs = <<>> THEN [h |-> h, r |-> <<>>]
    ELSE With(FOV_deepcopy(h, Head(fovs)), LAMBDA c :
         With(deepcopy_fovs(c.h, Tail(fovs)), LAMBDA rest :
         [h |-> rest.h, r |-> <<c.r>> \o rest.r]))

(***************************************************************************)
(* Q: the condition tree.  A Q object is [fovs, children, negate, mode].   *)
(* The lists _fovs and _children are written only while their Q object is  *)
(* fresh, so a Q object holds them by value.                               *)
(***************************************************************************)
\* [self._build_fov(k, v) for k, v in six.iteritems(filter_fields)]
RECURSIVE build_fovs(_, _)
build_fovs(h, filter_fields) ==
    IF filter_fields = <<>> THEN [h |-> h, r |-> <<>>]
    ELSE With(AllocF(h, build_fov(Head(filter_fields).key, Head(filter_fields).value)),
              LAMBDA a :
         With(build_fovs(a.h, Tail(filter_fields)), LAMBDA rest :
         [h |-> rest.h, r |-> <<a.r>> \o rest.r]))

\* Q.__init__ with its keyword arguments as filter_fields
Q_init(h, filter_fields) ==
    With(build_fovs(h, filter_fields), LAMBDA f :
    AllocQ(f.h, [fovs |-> f.r, children |-> <<>>, negate |-> FALSE,
                 mode |-> AND_MODE]))

is_empty(h, id) == ~(h.q[id].fovs # <<>> \/ h.q[id].children # <<>>)

\* Q.__bool__
Q_bool(h, id) == ~is_empty(h, id)

\* Q.__deepcopy__
RECURSIVE Q_deepcopy(_, _), deepcopy_children(_, _)
Q_deepcopy(h, id) ==
    With(deepcopy_fovs(h, h.q[id].fovs), LAMBDA f :
    With(deepcopy_children(f.h, h.q[id].children), LAMBDA c :
    AllocQ(c.h, [fovs |-> f.r, children |-> c.r,
                 negate |-> h.q[id].negate, mode |-> h.q[id].mode])))
deepcopy_children(h, children) ==
    IF children = <<>> THEN [h |-> h, r |-> <<>>]
    ELSE With(Q_deepcopy(h, Head(children)), LAMBDA c :
         With(deepcopy_children(c.h, Tail(children)), LAMBDA rest :
         [h |-> rest.h, r |-> <<c.r>> \o rest.r]))

\* copy(q): a new Q object with the same attribute values
Q_copy(h, id) == AllocQ(h, h.q[id])

\* a wrong Q._construct_from: the right operand becomes the tree that is
\* extended, the left one the child appended
construct_from_swapped(h, l_child, r_child, mode) ==
    IF mode = h.q[l_child].mode \/ mode = h.q[r_child].mode
    THEN With(Q_deepcopy(h, r_child), LAMBDA q :
         With(Q_deepcopy(q.h, l_child), LAMBDA c :
         [h |-> [c.h EXCEPT !.q[q.r].children = @ \o <<c.r>>], r |-> q.r]))
    ELSE AllocQ(h, [fovs |-> <<>>, children |-> <<l_child, r_child>>,
                    negate |-> FALSE, mode |-> mode])

\* Q._construct_from
construct_from(h, l_child, r_child, mode) ==
    IF mode = h.q[l_child].mode
    THEN With(Q_deepcopy(h, l_child), LAMBDA q :
         With(Q_deepcopy(q.h, r_child), LAMBDA c :
         [h |-> [c.h EXCEPT !.q[q.r].children = @ \o <<c.r>>], r |-> q.r]))
    ELSE IF mode = h.q[r_child].mode
    THEN With(Q_deepcopy(h, r_child), LAMBDA q :
         With(Q_deepcopy(q.h, l_child), LAMBDA c :
         [h |-> [c.h EXCEPT !.q[q.r].children = @ \o <<c.r>>], r |-> q.r]))
    ELSE \* different modes: the operands themselves become the children
         AllocQ(h, [fovs |-> <<>>, children |-> <<l_child, r_child>>,
                    negate |-> FALSE, mode |-> mode])

Q_or(h, self, other) == construct_from(h, self, other, OR_MODE)
Q_and(h, self, other) == construct_from(h, self, other, AND_MODE)

\* Q.__invert__: q = copy(self); q._negate = True
Q_invert(h, self) ==
    With(Q_copy(h, self), LAMBDA q :
    [h |-> [q.h EXCEPT !.q[q.r].negate = TRUE], r |-> q.r])

\* ') MODE ('.join(condition_sql)
RECURSIVE join_conditions(_, _)
join_conditions(mode, condition_sql) ==
    IF Len(condition_sql) = 1 THEN Head(condition_sql).sql
    ELSE Head(condition_sql).sql \o <<")", mode, "(">>
         \o join_conditions(mode, Tail(condition_sql))

RECURSIVE concat_conv(_)
concat_conv(condition_sql) ==
    IF condition_sql = <<>> THEN <<>>
    ELSE Head(condition_sql).conv \o concat_conv(Tail(condition_sql))

\* Q.to_sql
RECURSIVE Q_to_sql(_, _)
Q_to_sql(h, id) ==
    LET q == h.q[id]
        kids == SelectSeq(q.children, LAMBDA c : Q_bool(h, c))
    IN With([i \in 1..Len(q.fovs) |-> FOV_to_sql(h, q.fovs[i])]
               \o [i \in 1..Len(kids) |-> Q_to_sql(h, kids[i])],
            LAMBDA condition_sql :
       LET n == Len(condition_sql)
           conv == concat_conv(condition_sql)
           raised == \E i \in 1..n : ~condition_sql[i].ok
           \* a condition that is None cannot be joined with another
           unjoinable == n > 1 /\ \E i \in 1..n : ~condition_sql[i].ret
       IN IF raised \/ unjoinable THEN Raised(conv)
          ELSE IF n = 1 /\ ~condition_sql[1].ret
               THEN IF q.negate THEN Returned(<<"NOT", "(", "None", ")">>, conv)
                    ELSE [ok |-> TRUE, sql |-> <<>>, ret |-> FALSE, conv |-> conv]
          ELSE With(IF n = 0 THEN <<"1">>
                    ELSE IF n = 1 THEN condition_sql[1].sql
                    ELSE <<"(">> \o join_conditions(q.mode, condition_sql) \o <<")">>,
                    LAMBDA sql :
               IF q.negate THEN Returned(<<"NOT", "(">> \o sql \o <<")">>, conv)
               ELSE Returned(sql, conv)))

(***************************************************************************)
(* What can be reached from a set of condition trees: the Q objects, the   *)
(* FOV objects and the list values.                                        *)
(***************************************************************************)
RECURSIVE ReachQ1(_, _)
ReachQ1(h, id) == {id} \cup UNION {ReachQ1(h, c) : c \in SeqRange(h.q[id].children)}
ReachQ(h, ids) == UNION {ReachQ1(h, id) : id \in ids}
ReachF(h, ids) == UNION {SeqRange(h.q[q].fovs) : q \in ReachQ(h, ids)}
ReachV(h, ids) ==
    {h.f[f].value.ref : f \in {g \in ReachF(h, ids) : h.f[g].value.kind = "list"}}

\* every object reachable from ids in heap h is the same object in heap g
SameObjects(h, g, ids) ==
    /\ \A q \in ReachQ(h, ids) : q \in DOMAIN g.q /\ g.q[q] = h.q[q]
    /\ \A f \in ReachF(h, ids) : f \in DOMAIN g.f /\ g.f[f] = h.f[f]
    /\ \A v \in ReachV(h, ids) : v \in DOMAIN g.v /\ g.v[v] = h.v[v]

(***************************************************************************)
(* The condition-tree algebra as the caller drives it: build trees from    *)
(* keyword arguments, combine them with &, | and ~, and change a list the  *)
(* caller passed as a leaf's value.                                        *)
(***************************************************************************)
Key(name) == [name |-> name, dunder |-> FALSE, suffix |-> ""]
KeyOp(name, suffix) == [name |-> name, dunder |-> TRUE, suffix |-> suffix]

\* the keyword arguments the caller builds trees from: a key and a literal each
FilterFields ==
    { <<>>,
      << [key |-> Key("x"), lit |-> ScalarValue(Some(1))] >>,
      << [key |-> KeyOp("x", "gt"), lit |-> ScalarValue(Some(0))],
         [key |-> Key("y"), lit |-> ScalarValue(Some(MaxVal))] >>,
      << [key |-> KeyOp("y", "in"), lit |-> ListValue(<<Some(0), Some(1)>>)] >> }

\* the caller's arguments as Python objects: a list literal is a new list
RECURSIVE pass_fields(_, _)
pass_fields(h, fields) ==
    IF fields = <<>> THEN [h |-> h, r |-> <<>>]
    ELSE With(IF Head(fields).lit.kind = "list"
              THEN With(AllocV(h, Head(fields).lit.items), LAMBDA v :
                        [h |-> v.h, r |-> ListRef(v.r)])
              ELSE [h |-> h, r |-> ScalarRef(Head(fields).lit.e)],
              LAMBDA a :
         With(pass_fields(a.h, Tail(fields)), LAMBDA rest :
         [h |-> rest.h,
          r |-> <<[key |-> Head(fields).key, value |-> a.r]>> \o rest.r]))

NoOperator == [key |-> Key(""), lit |-> ScalarValue(None)]
NoOutcome == [done |-> FALSE, fov |-> FOV_init("", "eq", ScalarRef(None)),
              res |-> Raised(<<>>)]
NoModel == [engine |-> "MergeTree"]

QLast(op, l, r, res, target, pre) ==
    [op |-> op, l |-> l, r |-> r, res |-> res, target |-> target, pre |-> pre]

InitQ ==
    /\ heap = EmptyHeap
    /\ regs = <<>>
    /\ last = QLast("init", 0, 0, 0, 0, EmptyHeap)
    /\ model_cls = NoModel
    /\ opIn = NoOperator
    /\ opOut = NoOutcome

\* the caller builds up to MaxRegs trees; a run ends with the caller's change
\* of a list
Building == Len(regs) < MaxRegs /\ last.op # "mutate"

\* the caller keeps the tree q that an operation on l and r returned
Built(op, l, r, q) ==
    /\ heap' = q.h
    /\ regs' = Append(regs, q.r)
    /\ last' = QLast(op, l, r, q.r, 0, heap)
    /\ UNCHANGED <<model_cls, opIn, opOut>>

\* q = Q(...) with keyword arguments
NewQ(fields) ==
    /\ Building
    /\ Built("new", 0, 0,
             With(pass_fields(heap, fields), LAMBDA a : Q_init(a.h, a.r)))

\* q = a & b
And(i, j) ==
    Building /\ Built("and", regs[i], regs[j], Q_and(heap, regs[i], regs[j]))

\* q = a | b
Or(i, j) ==
    Building /\ Built("or", regs[i], regs[j], Q_or(heap, regs[i], regs[j]))

\* q = ~a
Invert(i) ==
    Building /\ Built("not", regs[i], 0, Q_invert(heap, regs[i]))

\* after a combination the caller changes a list that one of the operands
\* holds as a leaf's value: lst[0] = e
Mutate(v, e) ==
    /\ last.op \in {"and", "or"}
    /\ v \in ReachV(heap, {last.l, last.r})
    /\ heap.v[v] # <<>>
    /\ heap.v[v][1] # e
    /\ heap' = [heap EXCEPT !.v[v][1] = e]
    /\ last' = QLast("mutate", last.l, last.r, last.res, v, heap)
    /\ UNCHANGED <<regs, model_cls, opIn, opOut>>

NextQ ==
    \/ \E fields \in FilterFields : NewQ(fields)
    \/ \E i \in 1..Len(regs), j \in 1..Len(regs) : And(i, j)
    \/ \E i \in 1..Len(regs), j \in 1..Len(regs) : Or(i, j)
    \/ \E i \in 1..Len(regs) : Invert(i)
    \/ \E v \in DOMAIN heap.v, e \in Scalars : Mutate(v, e)

SpecQ == InitQ /\ [][NextQ]_vars

\* the number of conditions a tree renders at its top level: its leaves and
\* its non-empty children
Conditions(h, id) ==
    Len(h.q[id].fovs) + Len(SelectSeq(h.q[id].children, LAMBDA c : Q_bool(h, c)))

(***************************************************************************)
(* Claims about the condition tree, checked under SpecQ.                   *)
(***************************************************************************)

\* C5: negation does not simplify: not(c) renders as NOT ( S ), where S is
\* what c renders as, whatever c is (so not(not(c)) is NOT ( NOT ( S ) )).
C5_NotWrapsRendering ==
    last.op = "not" =>
        Q_to_sql(heap, last.res).sql
            = <<"NOT", "(">> \o Q_to_sql(last.pre, last.l).sql \o <<")">>

\* C9: and(a, b) and or(a, b) leave a and b as they were, and the result
\* shares no tree, no leaf and no list value with a or b; a later change of
\* a list reachable from a or b does not change what the result renders.
C9_CombineOnDeepCopies ==
    /\ last.op \in {"and", "or"} =>
        /\ SameObjects(last.pre, heap, {last.l, last.r})
        /\ ReachQ(heap, {last.res}) \cap ReachQ(heap, {last.l, last.r}) = {}
        /\ ReachF(heap, {last.res}) \cap ReachF(heap, {last.l, last.r}) = {}
        /\ ReachV(heap, {last.res}) \cap ReachV(heap, {last.l, last.r}) = {}
    /\ last.op = "mutate" =>
        Q_to_sql(heap, last.res) = Q_to_sql(last.pre, last.res)

\* C10 as stated: the and of two AND-mode trees is an AND-mode tree with as
\* many top-level conditions as the two operands have together.
C10_AndAddsConditionCounts ==
    (/\ last.op = "and"
     /\ last.pre.q[last.l].mode = AND_MODE
     /\ last.pre.q[last.r].mode = AND_MODE) =>
        /\ heap.q[last.res].mode = AND_MODE
        /\ Conditions(heap, last.res)
              = Conditions(last.pre, last.l) + Conditions(last.pre, last.r)

\* C10 amended: the and of two AND-mode trees a and b is an AND-mode tree
\* with the top-level conditions of a and one more, b as a single child, when
\* b is not empty.
C10_AndAppendsOneChild ==
    (/\ last.op = "and"
     /\ last.pre.q[last.l].mode = AND_MODE
     /\ last.pre.q[last.r].mode = AND_MODE) =>
        /\ heap.q[last.res].mode = AND_MODE
        /\ Conditions(heap, last.res)
              = Conditions(last.pre, last.l)
                + (IF Q_bool(last.pre, last.r) THEN 1 ELSE 0)
        /\ Len(heap.q[last.res].fovs) = Len(last.pre.q[last.l].fovs)
        /\ Len(heap.q[last.res].children) = Len(last.pre.q[last.l].children) + 1

\* C10's case: two AND-mode trees are combined with and, the left one holding
\* conditions already and the right one holding two or more
C10_Witness ==
    /\ last.op = "and"
    /\ last.pre.q[last.l].mode = AND_MODE
    /\ last.pre.q[last.r].mode = AND_MODE
    /\ Conditions(last.pre, last.l) >= 1
    /\ Conditions(last.pre, last.r) >= 2

(***************************************************************************)
(* Rendering one leaf: the caller gives a key and a value, Q._build_fov    *)
(* makes the leaf and FOV.to_sql renders it.                               *)
(***************************************************************************)
KeyNames == {"x", "n", "my"}
KeySuffixes == {"eq", "ne", "gt", "between", "in", "not_in", "contains", "iexact", "field"}
Keys == {Key(k) : k \in KeyNames \cup {"my__field"}}
            \cup {KeyOp(k, o) : k \in KeyNames, o \in KeySuffixes}
Literals ==
    {ScalarValue(e) : e \in Scalars}
        \cup {ListValue(<<a, b>>) : a \in Scalars, b \in Scalars}

InitOp ==
    /\ heap = EmptyHeap
    /\ regs = <<>>
    /\ last = QLast("init", 0, 0, 0, 0, EmptyHeap)
    /\ model_cls = NoModel
    /\ opIn \in {[key |-> k, lit |-> l] : k \in Keys, l \in Literals}
    /\ opOut = NoOutcome

\* the rendering of the leaf Q makes of one keyword argument
render_leaf(in) ==
    With(pass_fields(EmptyHeap, <<in>>), LAMBDA a :
    With(build_fovs(a.h, a.r), LAMBDA f :
    [fov |-> f.h.f[f.r[1]], res |-> FOV_to_sql(f.h, f.r[1])]))

RenderLeaf ==
    /\ ~opOut.done
    /\ opOut' = [done |-> TRUE] @@ render_leaf(opIn)
    /\ UNCHANGED <<heap, regs, last, model_cls, opIn>>

NextOp == RenderLeaf

SpecOp == InitOp /\ [][NextOp]_vars

\* C8: between on (a, b) renders field BETWEEN a AND b when both bounds are
\* present, field >= a when b is None and field <= b when a is None; a bound
\* that is None is never handed to the field for conversion and no literal
\* of it is rendered.
C8_BetweenDegrades ==
    (/\ opOut.done
     /\ opOut.fov.operator = "between"
     /\ opOut.fov.field_name \in SeqRange(FieldNames)
     /\ opIn.lit.kind = "list") =>
        LET f == opOut.fov.field_name
            a == opIn.lit.items[1]
            b == opIn.lit.items[2]
            r == opOut.res
        IN /\ (a.some /\ b.some) =>
                  r.ok /\ r.ret /\ r.sql = <<f, "BETWEEN", str(a), "AND", str(b)>>
           /\ (a.some /\ ~b.some) => r.ok /\ r.ret /\ r.sql = <<f, ">=", str(a)>>
           /\ (~a.some /\ b.some) => r.ok /\ r.ret /\ r.sql = <<f, "<=", str(b)>>
           /\ None \notin SeqRange(r.conv)
           /\ NullLiteral \notin SeqRange(r.sql)

(***************************************************************************)
(* QuerySet and AggregateQuerySet.  A builder is a record of its           *)
(* attributes; where_q and prewhere_q hold Q objects by identity, the      *)
(* other attributes hold values that are replaced, never changed in place. *)
(* order_by entries are [name, desc]: desc stands for a leading "-".       *)
(* limits is [set, offset, count]: set is FALSE for None.                  *)
(***************************************************************************)
NoLimits == [set |-> FALSE, offset |-> 0, count |-> 0]
Limits(offset, n) == [set |-> TRUE, offset |-> offset, count |-> n]

\* 2**63 - 1 in the source; the model checker's integers are 32 bits wide, so
\* the model holds the largest of them: its role is to be a non-zero stop
\* above every start
NoStop == 2147483647

TableName == "t"

\* the backquote the source puts around a field or table name; a string of
\* the model cannot hold that character, and a double quote stands for it
BQ == "\""

AllocB(h, b) ==
    [h |-> [h EXCEPT !.b = @ @@ (h.next :> b), !.next = @ + 1], r |-> h.next]

\* copy(self) for a builder
QuerySet_copy(h, self) == AllocB(h, h.b[self])

\* the outcome of a builder operation: ok is FALSE when it raises (err names
\* the exception), h is the heap afterwards, r the builder returned (0: none),
\* io the calls made on the data source, value what else it returns
Derived(h, r) == [ok |-> TRUE, err |-> "", h |-> h, r |-> r, io |-> <<>>, value |-> 0]
Fails(h, err, io) == [ok |-> FALSE, err |-> err, h |-> h, r |-> 0, io |-> io, value |-> 0]
Gives(h, value, io) == [ok |-> TRUE, err |-> "", h |-> h, r |-> 0, io |-> io, value |-> value]

\* QuerySet.__init__(model_cls, database)
QuerySet_init(h) ==
    LET w == Q_init(h, <<>>)
        p == Q_init(w.h, <<>>)
    IN AllocB(p.h, [kind |-> "QuerySet", order_by |-> <<>>, where_q |-> w.r,
                    prewhere_q |-> p.r, grouping_fields |-> <<>>,
                    grouping_with_totals |-> FALSE, fields |-> FieldNames,
                    limits |-> NoLimits, distinct |-> FALSE, final |-> FALSE,
                    calculated_fields |-> <<>>])

\* QuerySet.select_fields_as_sql / AggregateQuerySet.select_fields_as_sql
select_fields_as_sql(b) ==
    IF b.kind = "QuerySet"
    THEN IF b.fields # <<>>
         THEN comma_join([i \in 1..Len(b.fields) |-> <<BQ \o b.fields[i] \o BQ>>])
         ELSE <<"*">>
    ELSE comma_join([i \in 1..Len(b.fields) |-> <<b.fields[i]>>]
                    \o [i \in 1..Len(b.calculated_fields) |->
                           <<b.calculated_fields[i].expr, "AS",
                             b.calculated_fields[i].name>>])

\* QuerySet.order_by_as_sql
order_by_as_sql(b) ==
    comma_join([i \in 1..Len(b.order_by) |->
                   IF b.order_by[i].desc THEN <<b.order_by[i].name, "DESC">>
                   ELSE <<b.order_by[i].name>>])

\* QuerySet.conditions_as_sql
conditions_as_sql(h, q_object) == Q_to_sql(h, q_object)

\* a wrong QuerySet.as_sql: WITH TOTALS does not depend on grouping fields
as_sql_totals_unguarded(h, self) ==
    LET b == h.b[self]
    IN <<"SELECT">> \o (IF b.distinct THEN <<"DISTINCT">> ELSE <<>>)
       \o select_fields_as_sql(b)
       \o <<"FROM", BQ \o TableName \o BQ>>
       \o (IF b.final THEN <<"FINAL">> ELSE <<>>)
       \o (IF Q_bool(h, b.prewhere_q)
           THEN <<"PREWHERE">> \o conditions_as_sql(h, b.prewhere_q).sql ELSE <<>>)
       \o (IF Q_bool(h, b.where_q)
           THEN <<"WHERE">> \o conditions_as_sql(h, b.where_q).sql ELSE <<>>)
       \o (IF b.grouping_fields # <<>>
           THEN <<"GROUP BY">>
                \o comma_join([i \in 1..Len(b.grouping_fields) |->
                                  <<BQ \o b.grouping_fields[i] \o BQ>>])
           ELSE <<>>)
       \o (IF b.grouping_with_totals THEN <<"WITH TOTALS">> ELSE <<>>)
       \o (IF b.order_by # <<>> THEN <<"ORDER BY">> \o order_by_as_sql(b) ELSE <<>>)
       \o (IF b.limits.set
           THEN <<"LIMIT", ToString(b.limits.offset), ",", ToString(b.limits.count)>>
           ELSE <<>>)

\* QuerySet.as_sql
as_sql(h, self) ==
    LET b == h.b[self]
    IN <<"SELECT">> \o (IF b.distinct THEN <<"DISTINCT">> ELSE <<>>)
       \o select_fields_as_sql(b)
       \o <<"FROM", BQ \o TableName \o BQ>>
       \o (IF b.final THEN <<"FINAL">> ELSE <<>>)
       \o (IF Q_bool(h, b.prewhere_q)
           THEN <<"PREWHERE">> \o conditions_as_sql(h, b.prewhere_q).sql ELSE <<>>)
       \o (IF Q_bool(h, b.where_q)
           THEN <<"WHERE">> \o conditions_as_sql(h, b.where_q).sql ELSE <<>>)
       \o (IF b.grouping_fields # <<>>
           THEN <<"GROUP BY">>
                \o comma_join([i \in 1..Len(b.grouping_fields) |->
                                  <<BQ \o b.grouping_fields[i] \o BQ>>])
                \o (IF b.grouping_with_totals THEN <<"WITH TOTALS">> ELSE <<>>)
           ELSE <<>>)
       \o (IF b.order_by # <<>> THEN <<"ORDER BY">> \o order_by_as_sql(b) ELSE <<>>)
       \o (IF b.limits.set
           THEN <<"LIMIT", ToString(b.limits.offset), ",", ToString(b.limits.count)>>
           ELSE <<>>)

\* a call on the data source: select(sql[, model_cls]), count(model_cls,
\* conditions) or raw(sql), with the text handed over; cond is the tree the
\* conditions of a count were rendered from (0 for the other calls)
Call(fn, sql) == [fn |-> fn, sql |-> sql, cond |-> 0]

\* QuerySet.__iter__ / AggregateQuerySet.__iter__
QuerySet_iter(h, self) == Gives(h, 0, <<Call("select", as_sql(h, self))>>)

\* a wrong QuerySet.order_by: the ordering is set on the receiver itself
order_by_in_place(h, self, field_names) ==
    Derived([h EXCEPT !.b[self].order_by = field_names], self)

\* QuerySet.order_by
order_by(h, self, field_names) ==
    LET qs == QuerySet_copy(h, self)
    IN Derived([qs.h EXCEPT !.b[qs.r].order_by = field_names], qs.r)

\* QuerySet.only / AggregateQuerySet.only
only(h, self, field_names) ==
    IF h.b[self].kind = "AggregateQuerySet" THEN Fails(h, "NotImplementedError", <<>>)
    ELSE LET qs == QuerySet_copy(h, self)
         IN Derived([qs.h EXCEPT !.b[qs.r].fields = field_names], qs.r)

\* condition &= q_obj, for each q_obj in q
RECURSIVE and_all(_, _, _)
and_all(h, condition, q) ==
    IF q = <<>> THEN [h |-> h, r |-> condition]
    ELSE With(Q_and(h, condition, Head(q)), LAMBDA c : and_all(c.h, c.r, Tail(q)))

\* QuerySet._filter_or_exclude: q are the positional Q objects, kwargs the
\* field lookups
filter_or_exclude(h, self, q, kwargs, reverse, prewhere) ==
    With(QuerySet_copy(h, self), LAMBDA qs :
    With(Q_init(qs.h, <<>>), LAMBDA c0 :
    With(and_all(c0.h, c0.r, q), LAMBDA c1 :
    With(IF kwargs # <<>>
         THEN With(Q_init(c1.h, kwargs), LAMBDA k : Q_and(k.h, c1.r, k.r))
         ELSE c1, LAMBDA c2 :
    With(IF reverse THEN Q_invert(c2.h, c2.r) ELSE c2, LAMBDA c3 :
    With(Q_copy(c3.h, IF prewhere THEN c3.h.b[self].prewhere_q
                      ELSE c3.h.b[self].where_q), LAMBDA old :
    With(Q_and(old.h, old.r, c3.r), LAMBDA condition :
    IF prewhere
    THEN Derived([condition.h EXCEPT !.b[qs.r].prewhere_q = condition.r], qs.r)
    ELSE Derived([condition.h EXCEPT !.b[qs.r].where_q = condition.r], qs.r))))))))

\* QuerySet.distinct
distinct(h, self) ==
    LET qs == QuerySet_copy(h, self)
    IN Derived([qs.h EXCEPT !.b[qs.r].distinct = TRUE], qs.r)

\* QuerySet.final
final(h, self, engine) ==
    IF engine # "CollapsingMergeTree" THEN Fails(h, "TypeError", <<>>)
    ELSE LET qs == QuerySet_copy(h, self)
         IN Derived([qs.h EXCEPT !.b[qs.r].final = TRUE], qs.r)

\* x or default, for an integer or None x
OrDefault(x, default) == IF x.some /\ x.i # 0 THEN x.i ELSE default

\* a wrong slice: the rows are fetched at once, as for a single index
getitem_slice_eager(h, self, s) ==
    With(QuerySet_copy(h, self), LAMBDA qs :
    With([qs.h EXCEPT !.b[qs.r].limits =
             Limits(OrDefault(s.start, 0),
                    OrDefault(s.stop, NoStop) - OrDefault(s.start, 0))], LAMBDA g :
    [ok |-> TRUE, err |-> "", h |-> g, r |-> qs.r,
     io |-> <<Call("select", as_sql(g, qs.r))>>, value |-> 0]))

\* QuerySet.__getitem__(s) for a slice s = [start, stop, step]
getitem_slice(h, self, s) ==
    IF ~(~s.step.some \/ s.step.i = 1) THEN Fails(h, "AssertionError", <<>>)
    ELSE LET start == OrDefault(s.start, 0)
             stop == OrDefault(s.stop, NoStop)
         IN IF ~(start >= 0 /\ stop >= 0) THEN Fails(h, "AssertionError", <<>>)
            ELSE IF ~(start <= stop) THEN Fails(h, "AssertionError", <<>>)
            ELSE LET qs == QuerySet_copy(h, self)
                 IN Derived([qs.h EXCEPT !.b[qs.r].limits = Limits(start, stop - start)],
                            qs.r)

\* QuerySet.__getitem__(s) for an integer s; rows is the number of rows the
\* data source yields for the select
getitem_index(h, self, s, rows) ==
    IF ~(s >= 0) THEN Fails(h, "AssertionError", <<>>)
    ELSE With(QuerySet_copy(h, self), LAMBDA qs :
         With([qs.h EXCEPT !.b[qs.r].limits = Limits(s, 1)], LAMBDA g :
         With(QuerySet_iter(g, qs.r), LAMBDA it :
         IF rows = 0 THEN Fails(g, "StopIteration", it.io)
         ELSE Gives(g, 1, it.io))))

\* QuerySet.count / AggregateQuerySet.count; answer is what the data source
\* answers: an integer, or None for raw()'s empty text
count(h, self, answer) ==
    IF h.b[self].kind = "AggregateQuerySet" \/ h.b[self].distinct \/ h.b[self].limits.set
    THEN \* a subquery, since a simple count won't be accurate
         Gives(h, IF answer.some THEN answer.i ELSE 0,
               <<Call("raw", <<"SELECT", "count()", "FROM", "(">>
                                \o as_sql(h, self) \o <<")">>)>>)
    ELSE \* simple case
         With(Q_and(h, h.b[self].where_q, h.b[self].prewhere_q), LAMBDA c :
         Gives(c.h, answer.i,
               <<[Call("count", conditions_as_sql(c.h, c.r).sql) EXCEPT !.cond = c.r]>>))

\* QuerySet.__bool__
QuerySet_bool(h, self, answer) ==
    With(count(h, self, answer), LAMBDA c : [c EXCEPT !.value = (c.value # 0)])

\* int(ceil(count / float(page_size))) for count >= 0 and page_size >= 1
CeilDiv(n, page_size) == (n + page_size - 1) \div page_size

Page(objects, number_of_objects, pages_total, number, page_size) ==
    [objects |-> objects, number_of_objects |-> number_of_objects,
     pages_total |-> pages_total, number |-> number, page_size |-> page_size]

\* QuerySet.paginate(page_num, page_size); answer is the data source's answer
\* to the count.  The objects of the page are the rows the data source
\* yields for the select: the page holds the statement that fetched them.
paginate(h, self, page_num, page_size, answer) ==
    With(count(h, self, answer), LAMBDA c :
    With(CeilDiv(c.value, page_size), LAMBDA pages_total :
    With(IF page_num = -1 THEN pages_total ELSE page_num, LAMBDA number :
    IF page_num # -1 /\ page_num < 1 THEN Fails(h, "ValueError", c.io)
    ELSE With((number - 1) * page_size, LAMBDA offset :
         With(getitem_slice(h, self, [start |-> Some(offset),
                                      stop |-> Some(offset + page_size),
                                      step |-> None]), LAMBDA sl :
         IF ~sl.ok THEN Fails(h, sl.err, c.io)
         ELSE With(QuerySet_iter(sl.h, sl.r), LAMBDA it :
              Gives(sl.h,
                    Page(it.io[1].sql, c.value, pages_total, number, page_size),
                    c.io \o it.io)))))))

\* QuerySet.aggregate / AggregateQuerySet.__init__ / AggregateQuerySet.aggregate:
\* args are the grouping fields, kwargs the calculated fields [name, expr]
aggregate(h, self, args, kwargs) ==
    IF h.b[self].kind = "AggregateQuerySet" THEN Fails(h, "NotImplementedError", <<>>)
    ELSE IF kwargs = <<>> THEN Fails(h, "AssertionError", <<>>)
    ELSE LET base_qs == h.b[self]
             \* QuerySet.__init__ makes two trees, which are then replaced
             w == Q_init(h, <<>>)
             p == Q_init(w.h, <<>>)
             a == AllocB(p.h, [kind |-> "AggregateQuerySet",
                               order_by |-> base_qs.order_by,
                               where_q |-> base_qs.where_q,
                               prewhere_q |-> base_qs.prewhere_q,
                               grouping_fields |-> args,
                               grouping_with_totals |-> FALSE,
                               fields |-> args,
                               limits |-> base_qs.limits,
                               distinct |-> base_qs.distinct,
                               final |-> FALSE,
                               calculated_fields |-> kwargs])
         IN Derived(a.h, a.r)

\* AggregateQuerySet.group_by; a QuerySet has no such method
group_by(h, self, args) ==
    LET b == h.b[self]
        names == SeqRange(b.fields)
                    \cup {b.calculated_fields[i].name : i \in 1..Len(b.calculated_fields)}
    IN IF b.kind # "AggregateQuerySet" THEN Fails(h, "AttributeError", <<>>)
       ELSE IF \E i \in 1..Len(args) : args[i] \notin names
            THEN Fails(h, "AssertionError", <<>>)
       ELSE LET qs == QuerySet_copy(h, self)
            IN Derived([qs.h EXCEPT !.b[qs.r].grouping_fields = args], qs.r)

\* AggregateQuerySet.with_totals; a QuerySet has no such method
with_totals(h, self) ==
    IF h.b[self].kind # "AggregateQuerySet" THEN Fails(h, "AttributeError", <<>>)
    ELSE LET qs == QuerySet_copy(h, self)
         IN Derived([qs.h EXCEPT !.b[qs.r].grouping_with_totals = TRUE], qs.r)

(***************************************************************************)
(* The builders as the caller drives them: one builder is made for the     *)
(* model class, and every operation is called on the builder made last.    *)
(***************************************************************************)
MaxBuilders == 3   \* builders of one run: the first and those derived from it
MaxArgBuilders == 2   \* builders of one run over the full grid of arguments
MaxIdx == 2        \* indexes and slice bounds range up to MaxIdx
MaxCount == 3      \* the data source counts up to MaxCount rows
MaxPage == 2       \* page numbers range up to MaxPage
MaxPageSize == 2   \* page sizes range over 1..MaxPageSize

Engines == {"CollapsingMergeTree", "MergeTree"}

\* the positional arguments of filter(): Q(...) of the fields, inverted or not
QArgs == [fields : {<< [key |-> KeyOp("x", "gt"), lit |-> ScalarValue(Some(0))],
                       [key |-> Key("y"), lit |-> ScalarValue(Some(MaxVal))] >>},
          negate : BOOLEAN]

FilterArgs ==
    { [q |-> <<>>, kwargs |-> <<>>, reverse |-> FALSE, prewhere |-> FALSE],
      [q |-> <<>>, kwargs |-> << [key |-> Key("x"), lit |-> ScalarValue(Some(1))] >>,
       reverse |-> FALSE, prewhere |-> FALSE],
      [q |-> <<>>, kwargs |-> << [key |-> Key("x"), lit |-> ScalarValue(Some(1))] >>,
       reverse |-> TRUE, prewhere |-> FALSE],
      [q |-> <<>>, kwargs |-> << [key |-> Key("n"), lit |-> ScalarValue(None)] >>,
       reverse |-> FALSE, prewhere |-> TRUE] }
    \cup { [q |-> <<a>>,
            kwargs |-> << [key |-> KeyOp("y", "in"),
                           lit |-> ListValue(<<Some(0), Some(1)>>)] >>,
            reverse |-> a.negate, prewhere |-> a.negate] : a \in QArgs }

OrderBys == { <<>>, <<[name |-> "x", desc |-> TRUE], [name |-> "y", desc |-> FALSE]>> }
OnlyFields == { <<>>, <<"x", "y">> }
GroupingFields == { <<>>, <<"x">> }
CalculatedFields == { <<>>, <<[name |-> "c", expr |-> "count()"]>> }
GroupBys == { <<>>, <<"c">>, <<"y">> }

Slice(start, stop, step) == [start |-> start, stop |-> stop, step |-> step]

\* the slices of the builder runs, and the full grid of slices
SomeSlices ==
    {Slice(a, b, c) : a \in {None, Some(1)}, b \in {Some(0), Some(MaxIdx)},
                      c \in {None, Some(2)}}
AllSlices ==
    {Slice(a, b, c) : a \in {None} \cup {Some(i) : i \in -1..MaxIdx},
                      b \in {None} \cup {Some(i) : i \in -1..MaxIdx},
                      c \in {None, Some(1), Some(2)}}

Answers == {None} \cup {Some(i) : i \in 0..MaxCount}

\* the caller's positional Q objects
RECURSIVE make_qs(_, _)
make_qs(h, qargs) ==
    IF qargs = <<>> THEN [h |-> h, r |-> <<>>]
    ELSE With(pass_fields(h, Head(qargs).fields), LAMBDA a :
         With(Q_init(a.h, a.r), LAMBDA q :
         With(IF Head(qargs).negate THEN Q_invert(q.h, q.r) ELSE q, LAMBDA n :
         With(make_qs(n.h, Tail(qargs)), LAMBDA rest :
         [h |-> rest.h, r |-> <<n.r>> \o rest.r]))))

Self == regs[Len(regs)]
Deriving == Len(regs) < MaxBuilders

BLast(op, self, args, out, pre) ==
    [op |-> op, self |-> self, args |-> args, ok |-> out.ok, err |-> out.err,
     res |-> out.r, io |-> out.io, value |-> out.value, pre |-> pre, post |-> out.h]

Init ==
    /\ LET qs == QuerySet_init(EmptyHeap)
       IN /\ heap = qs.h
          /\ regs = <<qs.r>>
          /\ last = BLast("new", 0, <<>>, Derived(qs.h, qs.r), EmptyHeap)
    /\ model_cls \in {[engine |-> e] : e \in Engines}
    /\ opIn = NoOperator
    /\ opOut = NoOutcome

\* the caller keeps the builder an operation returns; the objects an
\* operation made and did not return are garbage.  An operation that returns
\* no builder leaves heap and regs as they are, so whatever can follow it can
\* follow the state it was called in: operations are called in the states
\* that the construction or a derivation left.
Done(op, args, out) ==
    /\ last.ok /\ last.res # 0
    /\ last' = BLast(op, Self, args, out, heap)
    /\ IF out.ok /\ out.r # 0
       THEN heap' = out.h /\ regs' = Append(regs, out.r)
       ELSE UNCHANGED <<heap, regs>>
    /\ UNCHANGED <<model_cls, opIn, opOut>>

\* qs.filter(...) / qs.exclude(...)
Filter(a) ==
    /\ Deriving
    /\ Done(IF a.reverse THEN "exclude" ELSE "filter", a,
            With(make_qs(heap, a.q), LAMBDA q :
            With(pass_fields(q.h, a.kwargs), LAMBDA k :
            filter_or_exclude(k.h, Self, q.r, k.r, a.reverse, a.prewhere))))

OrderBy(field_names) ==
    Deriving /\ Done("order_by", field_names, order_by(heap, Self, field_names))

Only(field_names) ==
    Deriving /\ Done("only", field_names, only(heap, Self, field_names))

Distinct == Deriving /\ Done("distinct", <<>>, distinct(heap, Self))

Final == Deriving /\ Done("final", <<>>, final(heap, Self, model_cls.engine))

\* qs[start:stop:step]
GetSlice(s) == Deriving /\ Done("slice", s, getitem_slice(heap, Self, s))

Aggregate(args, kwargs) ==
    Deriving /\ Done("aggregate", [args |-> args, kwargs |-> kwargs],
                     aggregate(heap, Self, args, kwargs))

GroupBy(args) == Deriving /\ Done("group_by", args, group_by(heap, Self, args))

WithTotals == Deriving /\ Done("with_totals", <<>>, with_totals(heap, Self))

\* str(qs)
AsSql == Done("as_sql", <<>>, Gives(heap, as_sql(heap, Self), <<>>))

\* iter(qs)
Iterate == Done("iter", <<>>, QuerySet_iter(heap, Self))

\* qs[s]; rows is the number of rows the data source yields
GetIndex(s, rows) ==
    Done("index", [s |-> s, rows |-> rows], getitem_index(heap, Self, s, rows))

\* qs.count()
Count(answer) == Done("count", answer, count(heap, Self, answer))

\* bool(qs)
Bool(answer) == Done("bool", answer, QuerySet_bool(heap, Self, answer))

\* qs.paginate(page_num, page_size)
Paginate(page_num, page_size, answer) ==
    Done("paginate", [page_num |-> page_num, page_size |-> page_size,
                      answer |-> answer],
         paginate(heap, Self, page_num, page_size, answer))

Next ==
    \/ \E a \in FilterArgs : Filter(a)
    \/ \E f \in OrderBys : OrderBy(f)
    \/ \E f \in OnlyFields : Only(f)
    \/ Distinct
    \/ Final
    \/ \E s \in SomeSlices : GetSlice(s)
    \/ \E a \in GroupingFields, k \in CalculatedFields : Aggregate(a, k)
    \/ \E a \in GroupBys : GroupBy(a)
    \/ WithTotals
    \/ AsSql
    \/ Iterate
    \/ \E s \in {-1, 0, MaxIdx}, rows \in {0, 1} : GetIndex(s, rows)
    \/ \E answer \in Answers : Count(answer)
    \/ \E answer \in {Some(0), Some(MaxCount)} : Bool(answer)
    \/ \E n \in {-1, 0, 1}, answer \in {Some(0), Some(MaxCount)} : Paginate(n, 1, answer)

Spec == Init /\ [][Next]_vars

\* slicing and pagination over the full grid of their arguments
NextArgs ==
    \/ Len(regs) < MaxArgBuilders /\ \E a \in FilterArgs : Filter(a)
    \/ Len(regs) < MaxArgBuilders /\ Distinct
    \/ Len(regs) < MaxArgBuilders /\ \E s \in AllSlices : GetSlice(s)
    \/ \E n \in -2..MaxPage, size \in 1..MaxPageSize, c \in 0..MaxCount :
           Paginate(n, size, Some(c))

SpecArgs == Init /\ [][NextArgs]_vars

(***************************************************************************)
(* Claims about the builders, checked under Spec.                          *)
(***************************************************************************)
BuilderFields ==
    {"kind", "order_by", "where_q", "prewhere_q", "grouping_fields",
     "grouping_with_totals", "fields", "limits", "distinct", "final",
     "calculated_fields"}

DerivationOps ==
    {"filter", "exclude", "order_by", "only", "distinct", "final", "slice",
     "group_by", "with_totals"}

\* the attribute a derivation method is to set
TargetField(l) ==
    CASE l.op \in {"filter", "exclude"} ->
             IF l.args.prewhere THEN "prewhere_q" ELSE "where_q"
      [] l.op = "order_by" -> "order_by"
      [] l.op = "only" -> "fields"
      [] l.op = "distinct" -> "distinct"
      [] l.op = "final" -> "final"
      [] l.op = "slice" -> "limits"
      [] l.op = "group_by" -> "grouping_fields"
      [] l.op = "with_totals" -> "grouping_with_totals"

\* C1: a derivation method that returns a builder returns a new one, leaves
\* every attribute of its receiver and the trees the receiver holds as they
\* were, so the receiver renders the same SQL before and after, and the
\* builder returned has the receiver's value in every attribute but the one
\* the method targets.
C1_DerivationLeavesReceiver ==
    (last.op \in DerivationOps /\ last.ok) =>
        LET q == last.self
            old == last.pre.b[q]
        IN /\ last.res # q
           /\ last.res \notin DOMAIN last.pre.b
           /\ heap.b[q] = old
           /\ SameObjects(last.pre, heap, {old.where_q, old.prewhere_q})
           /\ as_sql(heap, q) = as_sql(last.pre, q)
           /\ \A f \in BuilderFields \ {TargetField(last)} : heap.b[last.res][f] = old[f]

\* C1's case: exclude() on a builder that already filters returned a builder
\* that renders another statement than its receiver
C1_Witness ==
    /\ last.op = "exclude" /\ last.ok
    /\ Q_bool(last.pre, last.pre.b[last.self].where_q)
    /\ as_sql(heap, last.res) # as_sql(heap, last.self)

ClauseKeywords ==
    <<"SELECT", "DISTINCT", "FROM", "FINAL", "PREWHERE", "WHERE", "GROUP BY",
      "WITH TOTALS", "ORDER BY", "LIMIT">>

\* the clause and modifier keywords of a statement, in the order they occur
Keywords(sql) == SelectSeq(sql, LAMBDA t : t \in SeqRange(ClauseKeywords))

\* whether the state of builder b asks for the clause or modifier
Wanted(h, b, word) ==
    CASE word \in {"SELECT", "FROM"} -> TRUE
      [] word = "DISTINCT" -> h.b[b].distinct
      [] word = "FINAL" -> h.b[b].final
      [] word = "PREWHERE" -> ~is_empty(h, h.b[b].prewhere_q)
      [] word = "WHERE" -> ~is_empty(h, h.b[b].where_q)
      [] word = "GROUP BY" -> h.b[b].grouping_fields # <<>>
      [] word = "WITH TOTALS" ->
             h.b[b].grouping_fields # <<>> /\ h.b[b].grouping_with_totals
      [] word = "ORDER BY" -> h.b[b].order_by # <<>>
      [] word = "LIMIT" -> h.b[b].limits.set

\* C2: the statement of a builder holds each clause and modifier at most
\* once, holds it if and only if the builder's state asks for it, and holds
\* them in the order SELECT [DISTINCT] .. FROM .. [FINAL] [PREWHERE] [WHERE]
\* [GROUP BY [WITH TOTALS]] [ORDER BY] [LIMIT]; WITH TOTALS comes right after
\* the fields of GROUP BY.
C2_ClauseOrder ==
    LET sql == as_sql(heap, Self)
        wanted == SelectSeq(ClauseKeywords, LAMBDA w : Wanted(heap, Self, w))
        pos(w) == CHOOSE p \in 1..Len(sql) : sql[p] = w
    IN /\ Keywords(sql) = wanted
       /\ sql[1] = "SELECT"
       /\ Wanted(heap, Self, "DISTINCT") => sql[2] = "DISTINCT"
       /\ Wanted(heap, Self, "FINAL") => pos("FINAL") = pos("FROM") + 2
       /\ Wanted(heap, Self, "WITH TOTALS") =>
             pos("WITH TOTALS")
                = pos("GROUP BY") + 2 * Len(heap.b[Self].grouping_fields)
       /\ Wanted(heap, Self, "LIMIT") => pos("LIMIT") = Len(sql) - 3

\* C2's case: a builder whose statement holds two or more of the optional
\* clauses and modifiers
C2_Witness == Len(Keywords(as_sql(heap, Self))) >= 4

LazyOps ==
    {"new", "filter", "exclude", "order_by", "only", "distinct", "final",
     "aggregate", "group_by", "with_totals", "slice", "as_sql"}
EagerOps == {"iter", "index", "count", "bool", "paginate"}

\* C3: constructing a builder, the derivation methods, aggregate, a slice and
\* the rendering make no call on the data source; a call is made only by
\* iteration, a single index, count() (also behind bool()) and paginate(),
\* each of which makes one when it returns, and every call is a select, a
\* count or a raw.
C3_LazyUntilEvaluated ==
    /\ last.op \in LazyOps \cup EagerOps
    /\ last.op \in LazyOps => last.io = <<>>
    /\ last.io # <<>> => last.op \in EagerOps
    /\ (last.op \in EagerOps /\ last.ok) => last.io # <<>>
    /\ \A i \in 1..Len(last.io) : last.io[i].fn \in {"select", "count", "raw"}

\* C3's case: a slice of a builder derived before returned a limited builder
C3_Witness ==
    /\ last.op = "slice" /\ last.ok
    /\ Len(regs) = 3
    /\ heap.b[last.res].limits.set
    /\ last.io = <<>>

\* Rendering a tree raises for a field the model lacks and for a value the
\* field refuses, and as_sql raises with it.  The builders of Spec and
\* SpecArgs filter on fields of the model with values the fields accept:
\* every tree a builder holds renders, so as_sql returns.
RenderingReturns ==
    \A b \in DOMAIN heap.b :
        /\ conditions_as_sql(heap, heap.b[b].where_q).ok
        /\ conditions_as_sql(heap, heap.b[b].prewhere_q).ok

(***************************************************************************)
(* The data behind the data source, after the spec's description of it:    *)
(* count(model, conditions) counts the rows of the model's table that the  *)
(* conditions select, a statement selects from the table the rows that its *)
(* PREWHERE and its WHERE select, and FINAL has the table collapse rows of *)
(* several versions to their final state first.  A row holds a value or    *)
(* NULL for every field of the model; key and version are the engine's.    *)
(***************************************************************************)
Row(key, version, x, y, n) ==
    [key |-> key, version |-> version, x |-> Some(x), y |-> Some(y), n |-> n,
     my__field |-> Some(0)]

Rows == { Row(1, 1, 1, MaxVal, None), Row(1, 2, 1, 0, Some(1)),
          Row(2, 1, 0, MaxVal, Some(0)) }

Tables == SUBSET Rows

\* the rows FINAL leaves: of every key the row of the latest version
FinalRows(table) ==
    {r \in table : \A s \in table : s.key = r.key => s.version <= r.version}

\* whether a row satisfies the condition rendered for a leaf; text matching
\* has no meaning on the integers of the rows
FOV_holds(h, id, row) ==
    LET fov == h.f[id]
        value == Deref(h, fov.value)
        v == row[fov.field_name]
        e == value.e
        items == SeqRange(value.items)
        op == fov.operator
    IN CASE op = "eq"  -> IF e.some THEN v = e ELSE ~v.some
         [] op = "ne"  -> IF e.some THEN v.some /\ v # e ELSE v.some
         [] op = "gt"  -> v.some /\ e.some /\ v.i > e.i
         [] op = "gte" -> v.some /\ e.some /\ v.i >= e.i
         [] op = "lt"  -> v.some /\ e.some /\ v.i < e.i
         [] op = "lte" -> v.some /\ e.some /\ v.i <= e.i
         [] op = "in"  -> v.some /\ v \in items
         [] op = "not_in" -> v.some /\ v \notin items
         [] OTHER -> FALSE

\* whether a row satisfies the condition rendered for a tree
RECURSIVE Q_holds(_, _, _)
Q_holds(h, id, row) ==
    LET q == h.q[id]
        kids == SelectSeq(q.children, LAMBDA c : Q_bool(h, c))
        conditions == [i \in 1..Len(q.fovs) |-> FOV_holds(h, q.fovs[i], row)]
                         \o [i \in 1..Len(kids) |-> Q_holds(h, kids[i], row)]
        holds == IF q.mode = AND_MODE
                 THEN \A i \in 1..Len(conditions) : conditions[i]
                 ELSE conditions = <<>> \/ \E i \in 1..Len(conditions) : conditions[i]
    IN IF q.negate THEN ~holds ELSE holds

\* the rows a count(model, conditions) call counts
CountedRows(h, call, table) == {r \in table : Q_holds(h, call.cond, r)}

\* the rows the statement of builder b selects
StatementRows(h, b, table) ==
    {r \in (IF h.b[b].final THEN FinalRows(table) ELSE table) :
        /\ Q_bool(h, h.b[b].prewhere_q) => Q_holds(h, h.b[b].prewhere_q, r)
        /\ Q_bool(h, h.b[b].where_q) => Q_holds(h, h.b[b].where_q, r)}

\* C4: count() of a QuerySet with neither distinct nor limits makes one count
\* call, and on every table the rows that call counts are as many as, and
\* the same as, the rows the builder's statement selects.
C4_CountEqualsStatementCount ==
    (/\ last.op = "count" /\ last.ok
     /\ last.pre.b[last.self].kind = "QuerySet"
     /\ ~last.pre.b[last.self].distinct
     /\ ~last.pre.b[last.self].limits.set) =>
        /\ Len(last.io) = 1
        /\ last.io[1].fn = "count"
        /\ \A table \in Tables :
              LET counted == CountedRows(last.post, last.io[1], table)
                  selected == StatementRows(last.pre, last.self, table)
              IN Cardinality(counted) = Cardinality(selected) /\ counted = selected

(***************************************************************************)
(* Claims about slicing and pagination, checked under SpecArgs.            *)
(***************************************************************************)
\* C6: a slice with integer start and stop returns a builder if and only if
\* start >= 0, stop >= 0, start <= stop and step is None or 1; the builder's
\* limits are then (start, stop - start) and its statement ends with
\* LIMIT start, stop - start; when the slice raises, no builder is returned
\* and nothing has changed.
C6_SliceSucceedsIffBoundsValid ==
    (last.op = "slice" /\ last.args.start.some /\ last.args.stop.some) =>
        LET start == last.args.start.i
            stop == last.args.stop.i
            step == last.args.step
            valid == /\ start >= 0 /\ stop >= 0 /\ start <= stop
                     /\ (~step.some \/ step.i = 1)
        IN /\ last.ok <=> valid
           /\ last.ok =>
                 LET sql == as_sql(heap, last.res)
                 IN /\ heap.b[last.res].limits = Limits(start, stop - start)
                    /\ SubSeq(sql, Len(sql) - 3, Len(sql))
                          = <<"LIMIT", ToString(start), ",", ToString(stop - start)>>
           /\ ~last.ok => last.res = 0 /\ heap = last.pre

\* C7: for c matching rows and a page size of one or more, paginate fails
\* with ValueError for a page_num below 1 other than -1, and otherwise
\* returns a page with number_of_objects = c, pages_total = ceil(c / size),
\* number = pages_total for page_num = -1 and page_num otherwise, whose
\* objects are fetched by the receiver's statement under
\* LIMIT (number - 1) * size, size.
C7_PaginateReportsPage ==
    last.op = "paginate" =>
        LET n == last.args.page_num
            size == last.args.page_size
            c == last.args.answer.i
            total == CHOOSE m \in 0..c : m * size >= c /\ (m - 1) * size < c
            number == IF n = -1 THEN total ELSE n
            page == [last.pre EXCEPT
                        !.b[last.self].limits = Limits((number - 1) * size, size)]
        IN /\ (n < 1 /\ n # -1) => ~last.ok /\ last.err = "ValueError"
           /\ (n >= 1 \/ n = -1) =>
                 /\ last.ok
                 /\ last.value.number_of_objects = c
                 /\ last.value.pages_total = total
                 /\ last.value.number = number
                 /\ last.value.page_size = size
                 /\ last.value.objects = as_sql(page, last.self)

(***************************************************************************)
(* The meaning of a rendered condition, checked under SpecQ.  A leaf is    *)
(* the condition FOV.to_sql renders for it; a truth assignment is the set  *)
(* of the leaf conditions that are true.  Q.to_sql puts every condition in *)
(* brackets, joins them with the mode and puts NOT ( ) around a negated    *)
(* tree, so the rendered predicate has the tree's structure.               *)
(***************************************************************************)
LeafConditions(h) == {FOV_to_sql(h, f).sql : f \in DOMAIN h.f}

\* the truth value of the predicate Q.to_sql renders for a tree, when the
\* leaf conditions in true_leaves are true and the others are false
RECURSIVE Q_value(_, _, _)
Q_value(h, id, true_leaves) ==
    LET q == h.q[id]
        kids == SelectSeq(q.children, LAMBDA c : Q_bool(h, c))
        conditions ==
            [i \in 1..Len(q.fovs) |-> FOV_to_sql(h, q.fovs[i]).sql \in true_leaves]
               \o [i \in 1..Len(kids) |-> Q_value(h, kids[i], true_leaves)]
        value == IF conditions = <<>> THEN TRUE   \* rendered as 1
                 ELSE IF q.mode = AND_MODE
                 THEN \A i \in 1..Len(conditions) : conditions[i]
                 ELSE \E i \in 1..Len(conditions) : conditions[i]
    IN IF q.negate THEN ~value ELSE value

\* C11: for non-empty trees a and b and every truth assignment to the
\* leaves, the predicate rendered for and(a, b) is true exactly when the
\* predicates rendered for a and for b are both true, and the predicate
\* rendered for or(a, b) is true exactly when one of them is.
C11_CombinationKeepsMeaning ==
    (/\ last.op \in {"and", "or"}
     /\ Q_bool(last.pre, last.l)
     /\ Q_bool(last.pre, last.r)) =>
        \A true_leaves \in SUBSET LeafConditions(heap) :
            LET a == Q_value(last.pre, last.l, true_leaves)
                b == Q_value(last.pre, last.r, true_leaves)
                res == Q_value(heap, last.res, true_leaves)
            IN IF last.op = "and" THEN res = (a /\ b) ELSE res = (a \/ b)

====
